---- MODULE Spec2Model ----
(***************************************************************************)
(* Playback clock of the bouncing-ball teleprompter.                       *)
(*                                                                         *)
(* Two variants of the program are modelled, selected by `variant`:        *)
(*   "r6"  = src/rainbow_6_090325_version_902pm.py                         *)
(*   "ip2" = src/rainbow_in_progress2.py                                   *)
(* Both keep the clock in module-level variables that the main loop and    *)
(* the event handlers assign; the variables below carry the same names.    *)
(*                                                                         *)
(* Time.  time.time() is modelled by the integer `wall`, counted in units  *)
(* of BASE_BOUNCE_DURATION / UnitsPerBase.  The speed multipliers are      *)
(* 1.0, 1.25, .. 2.0 = SpeedQ/4, so every comparison of the code between   *)
(* dt and BOUNCE_DURATION = BASE/multiplier is the exact integer           *)
(* comparison  dt * SpeedQ <= 4 * UnitsPerBase.                            *)
(* ball_y is kept exactly, as pixels * BallScale.                          *)
(*                                                                         *)
(* One step of the model is one event handler of the event loop, or Tick:  *)
(* the rest of the frame after the event loop, clock.tick(60), and the     *)
(* top of the next frame up to its event loop.                             *)
(***************************************************************************)
EXTENDS Integers, FiniteSets, Sequences, TLC

\* ---------------------------------------------------------------- bounds
UnitsPerBase == 2
MaxTime == 6
MaxEvents == 4
MaxSigLen == 4
MaxBody == 4
MaxTriples == 2
MaxBeatLen == 4
MaxLineLen == 3
MaxThreads == 3
MaxFrames == 2

\* ------------------------------------------------------ program constants
None == -1
BALL_HIGH_POSITION == 230
ball_top == BALL_HIGH_POSITION
screen_width == 1920
screen_height == 1020
ball_bottom == screen_height - 100
MIN_LINES_IN_SONG == 28
IP2_LINES_IN_SONG == 43
IP2_DRAG_LINES == 32
IP2_STEP == 5
IP2_BOUNCES_PER_LINE == 4
indicator_width == 8
CLICK_RADIUS == 25

\* inputs drawn by Init and by the handlers
Variants == {"r6", "ip2"}
\* a song: number of parsed lyric lines, number of raw lines carrying both
\* the 'LL' and the 'ZZZ' tag
\* a BeatTable line: entries (beat_num, chord, word) in offset order, as built by
\* extract_chords_and_words; even lines carry LineA, odd lines LineB
LineA == << <<1, "C", "some">>, <<2, "", "where">>, <<1, "G", "">> >>
LineB == << <<2, "Am", "">>, <<2, "F", "bow">> >>
Songs == { [lyrics |-> 2, tagged |-> 2, beat_numbers |-> <<1, 2>>],
           [lyrics |-> 29, tagged |-> 29, beat_numbers |-> <<1, 2, 3>>] }
IP2_BEAT_NUMBERS == <<1, 4, 7, 10>>
Numerators == {0, 1, 2}
\* seconds (in model units) a frame takes; delay of a time.time() call inside
\* a handler after the frame's own sample
Deltas == {1, 2, 3}
Skews == {0, 1}
MouseXs == {100, 1919}
SliderStops == {0, 2}

\* text is a sequence of one-character strings
SigChars == {"3", "4", "/", " ", "x"}
\* line 2 of the sheet: non-blank and right-stripped, at most MaxSigLen characters
SigStrings ==
    { t \in UNION { [1..n -> SigChars] : n \in 1..MaxSigLen } : t[Len(t)] # " " }

\* a raw line handed to get_rid_of_LL: a body of at most MaxBody characters and
\* possibly one of the tags; non-blank and right-stripped as song_data lines are
StripChars == {"L", "Z", "1", " ", "a", "\t"}
LineTags == { << >>,
              << "L", "L", " ", "1", "1" >>,
              << "Z", "Z", "Z", "L", "L", "1", "1" >>,
              << " ", "1", "1" >> }
StripLines ==
    { t \in { b \o g : b \in UNION { [1..n -> StripChars] : n \in 0..MaxBody },
                        g \in LineTags } :
         t # << >> /\ t[Len(t)] \notin {" ", "\t"} }

\* the lines a sheet is made of: line 1, line 2, then for every chord/lyric/beat
\* triple an optional section line and one line of each kind, tagged or not
TitleLine == << "T" >>
SigLine == << "3", "/", "4" >>
SectionLines ==
    { << >>,
      << "[", "V", "]" >>,
      << "[", "C", "]", " ", "G", " ", "Z", "Z", "Z" >> }
ChordLines ==
    { << "C", " ", "G", " ", "A", "m" >>,
      << "A", "m", " ", "L", "L", " ", "0", "1" >> }
LyricLines ==
    { << "s", "o", "m", "e", " ", "w", "h", "e", "r", "e", " ", "o", "v", "e", "r" >>,
      << "W", "h", "y" >>,
      << "D", "i", "d", " ", "E", "d", " ", "g", "o" >> }
BeatLines ==
    { << "1", " ", "2", " ", "Z", "Z", "Z", " ", "L", "L", " ", "0", "1" >> }
Triples == [section : SectionLines, chord : ChordLines, lyric : LyricLines,
            beat : BeatLines]
TripleLines(tr) ==
    (IF tr.section = << >> THEN << >> ELSE << tr.section >>)
       \o << tr.chord, tr.lyric, tr.beat >>
RECURSIVE Flatten(_)
Flatten(ss) == IF ss = << >> THEN << >> ELSE Head(ss) \o Flatten(Tail(ss))
\* song_data: no line, the title alone, or title, line 2 and up to MaxTriples triples
Sheets ==
    { << >>, << TitleLine >> } \cup
    { << TitleLine, SigLine >> \o Flatten([k \in 1..Len(ts) |-> TripleLines(ts[k])]) :
         ts \in UNION { [1..n -> Triples] : n \in 0..MaxTriples } }

\* the lines handed to find_beat_positions and extract_chords_and_words: every beat
\* line of at most MaxBeatLen characters, every chord line of at most MaxLineLen
\* characters, and a few lyric lines
BeatChars == { "0", "1", "6", " " }
BeatStrings == UNION { [1..n -> BeatChars] : n \in 0..MaxBeatLen }
ChordStrings == UNION { [1..n -> { "C", " " }] : n \in 0..MaxLineLen }
LyricStrings == { << >>, << "a", "b", " ", "c" >>, << " ", "a" >> }

VARIABLES
    variant,            \* which source file runs
    song,               \* the loaded song (fixed after load)
    beats_per_measure,  \* numerator returned by parse_time_signature
    current_index, bounce_count, ball_y, bounce_start_time,
    song_paused, pause_time, waiting_for_start, dragging,
    song_line_number, rising, falling,
    speed_index,        \* slider['current_index']; fixes BOUNCE_DURATION, gravity
    current_time,       \* time.time() sampled at the top of the frame
    wall,               \* what time.time() returns now
    circle_center_x,    \* progress indicator drawn at the top of the frame
    crashed,            \* an uncaught TypeError ended the program
    n_events,           \* events handled so far (bounds the run)
    highlight,          \* the highlight decision of the last frame (see Highlight)
    pause_snap,         \* history: the clock at the last toggle-pause (see Snap)
    start_speed,        \* history: speed_index when bounce_start_time was last set
    pc,                 \* where the program is: loading steps, or "play" (main loop)
    time_signature_str, \* line 2 of the sheet, the argument of parse_time_signature
    note_value,         \* denominator returned by parse_time_signature
    cleaned_line,       \* the argument of get_rid_of_LL
    Line,               \* what successive get_rid_of_LL calls returned
    song_data,          \* the non-blank lines of the sheet
    title,              \* line 1 of the sheet, or the default
    sections, chords, lyrics, beats,   \* the four streams filled by the loop
    remaining_lines,    \* lines not yet categorised
    beat_data_lines,    \* the keys of beat_chord_word_data
    beat_line, chord_line, lyric_line,   \* the cleaned lines of one triple
    beat_positions,     \* what find_beat_positions returned for beat_line
    chord_word_data,    \* what extract_chords_and_words returned
    BEAT_NUMBERS,       \* the beat sequence the highlight lookup indexes
    is_recording, recording_thread, audio_frames, audio_stream, p_audio,
    playback_mode,      \* "normal", "playback_idle", "playback_active"
    worker_pc,          \* where each record_audio_worker thread is
    open_streams,       \* the streams opened and not yet closed
    stop_returned       \* history: threads whose stop_recording has returned

vars == << variant, song, beats_per_measure, current_index, bounce_count, ball_y,
           bounce_start_time, song_paused, pause_time, waiting_for_start, dragging,
           song_line_number, rising, falling, speed_index, current_time, wall,
           circle_center_x, crashed, n_events, highlight, pause_snap, start_speed,
           pc, time_signature_str, note_value, cleaned_line, Line, song_data, title,
           sections, chords, lyrics, beats, remaining_lines, beat_data_lines,
           beat_line, chord_line, lyric_line, beat_positions, chord_word_data,
           BEAT_NUMBERS, is_recording, recording_thread, audio_frames, audio_stream,
           p_audio, playback_mode, worker_pc, open_streams, stop_returned >>

\* the variables of the alignment of one triple
alignVars == << beat_line, chord_line, lyric_line, beat_positions, chord_word_data >>

\* the variables of the recorder and the playback mode
recVars == << is_recording, recording_thread, audio_frames, audio_stream, p_audio,
              playback_mode, worker_pc, open_streams, stop_returned >>

\* what the loader and the main loop of the song player leave alone
otherVars == << alignVars, recVars >>

\* what the loader makes of the sheet
sheetVars == << song_data, title, sections, chords, lyrics, beats, remaining_lines,
                beat_data_lines >>

\* the variables written while the sheet is loaded
loadVars == << pc, time_signature_str, note_value, cleaned_line, Line, sheetVars >>

\* the variables of the main loop
playVars == << current_index, bounce_count, ball_y, bounce_start_time, song_paused,
               pause_time, waiting_for_start, dragging, song_line_number, rising,
               falling, speed_index, current_time, wall, circle_center_x, n_events,
               highlight, pause_snap, start_speed, BEAT_NUMBERS >>

clockVars == << current_index, bounce_count, ball_y, bounce_start_time, song_paused,
                pause_time, waiting_for_start, dragging, song_line_number, rising,
                falling >>

\* ------------------------------------------------------------- helpers
Min(a, b) == IF a < b THEN a ELSE b
Max(a, b) == IF a > b THEN a ELSE b

\* len(lyrics)
LenLyrics == song.lyrics

\* LINES_IN_SONG
LINES_IN_SONG ==
    IF variant = "r6" THEN Max(MIN_LINES_IN_SONG, song.tagged \div 3)
    ELSE IP2_LINES_IN_SONG

\* BOUNCES_PER_LINE
BOUNCES_PER_LINE ==
    IF variant = "ip2" THEN IP2_BOUNCES_PER_LINE
    ELSE IF beats_per_measure = 3 THEN 4
    ELSE IF beats_per_measure = 4 THEN 8
    ELSE beats_per_measure

\* 4 * speed_values[i]
SpeedQ(i) == 4 + i

\* pixels are scaled by BallScale = (2 * UnitsPerBase)^2
BallScale == (2 * UnitsPerBase) * (2 * UnitsPerBase)
TopS == ball_top * BallScale
BottomS == ball_bottom * BallScale
bounce_height == ball_bottom - ball_top

\* the comparison written  dt < BOUNCE_DURATION
WithinBounce_Strict(dt, i) == dt * SpeedQ(i) < 4 * UnitsPerBase
\* dt <= BOUNCE_DURATION
WithinBounce(dt, i) == dt * SpeedQ(i) <= 4 * UnitsPerBase
\* dt <= fall_time  (fall_time = BOUNCE_DURATION / 2)
WithinFall(dt, i) == dt * SpeedQ(i) <= 2 * UnitsPerBase

\* the fall without the clamp at ball_bottom
FallingBallY_NoClamp(dt, i) ==
    TopS + bounce_height * (dt * SpeedQ(i)) * (dt * SpeedQ(i))

\* ball_top + 0.5 * gravity * dt**2, clamped at ball_bottom
FallingBallY(dt, i) ==
    LET y == TopS + bounce_height * (dt * SpeedQ(i)) * (dt * SpeedQ(i))
    IN  IF y >= BottomS THEN BottomS ELSE y

\* ball_top + 0.5 * gravity * remaining_rise_time**2, clamped at ball_top
RisingBallY(dt, i) ==
    LET r == 4 * UnitsPerBase - dt * SpeedQ(i)
        y == TopS + bounce_height * r * r
    IN  IF y < TopS THEN TopS ELSE y

\* top of the frame: position of the progress indicator
CircleCenterX(waiting, idx) ==
    IF waiting THEN None
    ELSE LET denom == IF variant = "r6" THEN LenLyrics ELSE IP2_DRAG_LINES
             position_x == (idx * screen_width) \div denom
             rect_x == Max(0, Min(position_x - indicator_width \div 2,
                                  screen_width - indicator_width))
         IN  rect_x + indicator_width \div 2

\* a click in the Play/Pause rectangle (x 1740..1899, y from 80) that is also
\* within CLICK_RADIUS of the indicator circle (centre y = 62)
HitsCircleAndPlay(cx) ==
    /\ cx # None
    /\ \E mx \in 1740..1899 :
          (mx - cx) * (mx - cx) + (80 - 62) * (80 - 62) <= CLICK_RADIUS * CLICK_RADIUS

\* BEAT_NUMS: the integers of the first beat line, computed once the streams are
\* filled
BEAT_NUMS == song.beat_numbers

\* BEAT_NUMBERS when the main loop is entered: r6 computes it from beats[0] before
\* the categorisation loop has filled beats, so from ""; ip2 has a fixed list
BeatNumbersAtLoad == IF variant = "ip2" THEN IP2_BEAT_NUMBERS ELSE << >>

\* current_index in beat_chord_word_data
HasBeatData(idx) == 0 <= idx /\ idx < LenLyrics

\* beat_chord_word_data[idx]
beat_chord_word_data(idx) == IF idx % 2 = 0 THEN LineA ELSE LineB

\* the frame is the start screen: waiting for start at line 0, not dragging
StartScreen == waiting_for_start /\ current_index = 0 /\ ~dragging

\* the frame evaluates the highlight lookup  BEAT_NUMBERS[...]
LookupEvaluated ==
    ~StartScreen /\ HasBeatData(current_index) /\ (variant = "ip2" \/ rising)

\* the lookup raises: ZeroDivisionError (r6), IndexError (ip2)
LookupRaises ==
    /\ LookupEvaluated
    /\ IF variant = "r6" THEN Len(BEAT_NUMBERS) = 0
       ELSE bounce_count >= Len(BEAT_NUMBERS)

\* current_beat_number
current_beat_number ==
    IF variant = "r6"
    THEN BEAT_NUMBERS[(bounce_count % Len(BEAT_NUMBERS)) + 1]
    ELSE BEAT_NUMBERS[bounce_count + 1]

\* for beat_num, chord, word in current_beat_data: if beat_num == b: ... break
\* the index of the entry the loop stops at, from entry i on; 0 when it finds none
\* the loop without its break: the last matching entry wins
RECURSIVE FirstMatch_NoBreak(_, _, _)
FirstMatch_NoBreak(data, b, i) ==
    IF i > Len(data) THEN 0
    ELSE LET later == FirstMatch_NoBreak(data, b, i + 1)
         IN  IF later # 0 THEN later
             ELSE IF data[i][1] = b THEN i ELSE 0

RECURSIVE FirstMatch(_, _, _)
FirstMatch(data, b, i) ==
    IF i > Len(data) THEN 0
    ELSE IF data[i][1] = b THEN i
    ELSE FirstMatch(data, b, i + 1)

NoHighlight == [should_highlight_chord |-> FALSE, should_highlight_word |-> FALSE,
                should_highlight_ball |-> FALSE, line |-> 0, beat |-> 0, entry |-> 0]

\* the highlight decision of a frame that gets past the waiting screen
Highlight ==
    IF HasBeatData(current_index) /\ (variant = "ip2" \/ rising)
    THEN LET data == beat_chord_word_data(current_index)
             e == FirstMatch(data, current_beat_number, 1)
         IN  IF e = 0 THEN NoHighlight
             ELSE [should_highlight_chord |-> TRUE,
                   should_highlight_word |-> data[e][3] # "",
                   should_highlight_ball |-> data[e][3] # "",
                   line |-> current_index, beat |-> current_beat_number, entry |-> e]
    ELSE NoHighlight

\* history of the last toggle-pause: phase "paused" from a pause by the toggle until
\* any other intent, "resumed" in the state right after the toggle resumed it
NoSnap == [phase |-> "none", p |-> 0, r |-> 0, elapsed |-> 0, idx |-> 0, bc |-> 0,
           ball |-> 0, rising |-> FALSE, falling |-> FALSE]

Snap(t) == [phase |-> IF bounce_start_time = None THEN "none" ELSE "paused",
            p |-> t, r |-> 0,
            elapsed |-> IF bounce_start_time = None THEN 0 ELSE t - bounce_start_time,
            idx |-> current_index, bc |-> bounce_count, ball |-> ball_y,
            rising |-> rising, falling |-> falling]

Resumed(t) == IF pause_snap.phase = "paused"
              THEN [pause_snap EXCEPT !.phase = "resumed", !.r = t]
              ELSE NoSnap

Static == UNCHANGED << variant, song, beats_per_measure, loadVars, otherVars >>
\* an event of the frame's event loop
Frame ==
    /\ n_events < MaxEvents
    /\ n_events' = n_events + 1
    /\ UNCHANGED << current_time, circle_center_x, highlight, BEAT_NUMBERS >>

\* an uncaught exception: the program stops where it is
Crash ==
    /\ crashed' = TRUE
    /\ UNCHANGED << clockVars, speed_index, pause_snap, start_speed >>

\* time.time() inside handle_controls_click (r6); the frame's current_time (ip2)
ClickTimes ==
    IF variant = "r6"
    THEN { t \in wall..MaxTime : (t - current_time) \in Skews }
    ELSE { current_time }

\* ------------------------------------------------------------------ text
DigitChars == << "0", "1", "2", "3", "4", "5", "6", "7", "8", "9" >>
IsDigit(c) == \E k \in 1..10 : DigitChars[k] = c
DigitValue(c) == (CHOOSE k \in 1..10 : DigitChars[k] = c) - 1
IsSpace(c) == c \in {" ", "\t"}

\* str.lstrip(), str.rstrip(), str.strip()
RECURSIVE LStrip(_)
LStrip(t) == IF t # << >> /\ IsSpace(Head(t)) THEN LStrip(Tail(t)) ELSE t
RECURSIVE RStrip(_)
RStrip(t) ==
    IF t # << >> /\ IsSpace(t[Len(t)]) THEN RStrip(SubSeq(t, 1, Len(t) - 1)) ELSE t
StripText(t) == LStrip(RStrip(t))

\* pat in t
Contains(t, pat) ==
    \E k \in 0..(Len(t) - Len(pat)) : SubSeq(t, k + 1, k + Len(pat)) = pat

\* t.split(sep) for a one-character sep
RECURSIVE SplitOn(_, _)
SplitOn(t, sep) ==
    IF \A k \in 1..Len(t) : t[k] # sep THEN << t >>
    ELSE LET k == CHOOSE k \in 1..Len(t) :
                     t[k] = sep /\ \A j \in 1..(k - 1) : t[j] # sep
         IN  << SubSeq(t, 1, k - 1) >> \o SplitOn(SubSeq(t, k + 1, Len(t)), sep)

\* int(t) succeeds: digits, blanks allowed around them
IsIntLiteral(t) ==
    LET u == StripText(t) IN u # << >> /\ \A k \in 1..Len(u) : IsDigit(u[k])

\* int(t) for a literal
RECURSIVE DigitsToInt(_)
DigitsToInt(u) ==
    IF u = << >> THEN 0
    ELSE 10 * DigitsToInt(SubSeq(u, 1, Len(u) - 1)) + DigitValue(u[Len(u)])
IntOf(t) == DigitsToInt(StripText(t))

\* re.findall(r'\d+', t)
RECURSIVE FindNumbers(_)
FindNumbers(t) ==
    IF t = << >> THEN << >>
    ELSE IF ~IsDigit(Head(t)) THEN FindNumbers(Tail(t))
    ELSE LET n == CHOOSE n \in 1..Len(t) :
                     /\ \A j \in 1..n : IsDigit(t[j])
                     /\ (n = Len(t) \/ ~IsDigit(t[n + 1]))
         IN  << SubSeq(t, 1, n) >> \o FindNumbers(SubSeq(t, n + 1, Len(t)))

\* ----------------------------------------------------- parse_time_signature
TimeSignature(n, d) == [raised |-> FALSE, numerator |-> n, denominator |-> d]
ValueErrorRaised == [raised |-> TRUE, numerator |-> 0, denominator |-> 0]

\* the function without its  except (ValueError, IndexError)
parse_time_signature_NoExcept(time_sig_string) ==
    IF Contains(time_sig_string, << "/" >>)
    THEN LET parts == SplitOn(StripText(time_sig_string), "/")
         IN  IF IsIntLiteral(parts[1]) /\ IsIntLiteral(parts[2])
             THEN TimeSignature(IntOf(parts[1]), IntOf(parts[2]))
             ELSE ValueErrorRaised
    ELSE LET numbers == FindNumbers(time_sig_string)
         IN  IF Len(numbers) >= 2
             THEN TimeSignature(IntOf(numbers[1]), IntOf(numbers[2]))
             ELSE TimeSignature(4, 4)

parse_time_signature(time_sig_string) ==
    IF Contains(time_sig_string, << "/" >>)
    THEN LET parts == SplitOn(StripText(time_sig_string), "/")
         IN  IF IsIntLiteral(parts[1]) /\ IsIntLiteral(parts[2])
             THEN TimeSignature(IntOf(parts[1]), IntOf(parts[2]))
             ELSE TimeSignature(4, 4)
    ELSE LET numbers == FindNumbers(time_sig_string)
         IN  IF Len(numbers) >= 2
             THEN TimeSignature(IntOf(numbers[1]), IntOf(numbers[2]))
             ELSE TimeSignature(4, 4)

\* beats_per_measure, note_value = parse_time_signature(time_signature_str)
ParseTimeSignature ==
    /\ pc = "time_signature"
    /\ LET r == parse_time_signature(time_signature_str)
       IN  /\ crashed' = r.raised
           /\ beats_per_measure' = r.numerator
           /\ note_value' = r.denominator
    /\ pc' = "parsed"
    /\ UNCHANGED << otherVars, variant, song, playVars, time_signature_str, cleaned_line, Line,
                    sheetVars >>

\* ------------------------------------------------------------ get_rid_of_LL
TAB_SIZE == 4
\* str.expandtabs(4), from column col
RECURSIVE ExpandTabs(_, _)
ExpandTabs(t, col) ==
    IF t = << >> THEN << >>
    ELSE IF Head(t) = "\t"
         THEN LET n == TAB_SIZE - (col % TAB_SIZE)
              IN  [k \in 1..n |-> " "] \o ExpandTabs(Tail(t), col + n)
         ELSE << Head(t) >> \o ExpandTabs(Tail(t), col + 1)

\* Line[:-n]
DropLast(t, n) == SubSeq(t, 1, Len(t) - n)

\* re.search(r'(\d{2})$', Line)
EndsWithTwoDigits(t) == Len(t) >= 2 /\ IsDigit(t[Len(t)]) /\ IsDigit(t[Len(t) - 1])

get_rid_of_LL(line) ==
    LET expanded == ExpandTabs(line, 0)
    IN  IF Contains(expanded, << "L", "L" >>) /\ EndsWithTwoDigits(expanded)
        THEN LET cut == RStrip(DropLast(expanded, 5))
             IN  IF Contains(cut, << "Z", "Z", "Z" >>) THEN DropLast(cut, 3) ELSE cut
        ELSE expanded

\* the line is stripped when it is loaded and stripped again when it is rendered
StripLine ==
    /\ pc = "strip"
    /\ Len(Line) < 2
    /\ Line' = Append(Line, get_rid_of_LL(IF Line = << >> THEN cleaned_line
                                          ELSE Line[Len(Line)]))
    /\ UNCHANGED << otherVars, variant, song, beats_per_measure, playVars, crashed, pc,
                    time_signature_str, note_value, cleaned_line, sheetVars >>

\* -------------------------------------------------------------- the loader
NO_TITLE == << "[", "N", "o", " ", "t", "i", "t", "l", "e", "]" >>
DEFAULT_TIME_SIGNATURE == << "4", "/", "4" >>
NO_TIME_SIGNATURE ==
    << "[", "N", "o", " ", "t", "i", "m", "e", " ", "s", "i", "g", "n", "a", "t", "u",
       "r", "e", "]" >>

\* title, line 2, the time signature (r6) and the lines left to categorise
LoadSheet ==
    /\ pc = "load"
    /\ title' = IF Len(song_data) > 0 THEN song_data[1] ELSE NO_TITLE
    /\ time_signature_str' =
          IF Len(song_data) > 1 THEN song_data[2]
          ELSE IF variant = "r6" THEN DEFAULT_TIME_SIGNATURE ELSE NO_TIME_SIGNATURE
    /\ IF variant = "r6"
       THEN LET r == parse_time_signature(time_signature_str')
            IN  /\ crashed' = r.raised
                /\ beats_per_measure' = r.numerator
                /\ note_value' = r.denominator
       ELSE UNCHANGED << crashed, beats_per_measure, note_value >>
    /\ remaining_lines' =
          IF Len(song_data) > 2 THEN SubSeq(song_data, 3, Len(song_data)) ELSE << >>
    /\ pc' = "categorize"
    /\ UNCHANGED << otherVars, variant, song, playVars, cleaned_line, Line, song_data, sections,
                    chords, lyrics, beats, beat_data_lines >>

\* str.split()
RECURSIVE Split(_)
Split(t) ==
    LET u == LStrip(t)
    IN  IF u = << >> THEN << >>
        ELSE LET n == CHOOSE n \in 1..Len(u) :
                         /\ \A j \in 1..n : ~IsSpace(u[j])
                         /\ (n = Len(u) \/ IsSpace(u[n + 1]))
             IN  << SubSeq(u, 1, n) >> \o Split(SubSeq(u, n + 1, Len(u)))

\* t.replace(c, '')
Without(t, c) == SelectSeq(t, LAMBDA x : x # c)

\* CHORDS: every root alone and with every qualifier; "flat" and "sharp" stand for
\* the characters U+266D and U+266F
ChordRoots == { "C", "D", "E", "F", "G", "A", "B" }
ChordQualifiers ==
    { << >>, << "m" >>, << "7" >>, << "m", "7" >>, << "m", "a", "j", "7" >>,
      << "flat" >>, << "sharp" >>, << "flat", "m" >>, << "sharp", "m" >>,
      << "s", "u", "s", "4" >>, << "s", "u", "s", "2" >>, << "d", "i", "m" >>,
      << "a", "u", "g" >>, << "a", "d", "d", "9" >> }
CHORDS == { << r >> \o q : r \in ChordRoots, q \in ChordQualifiers }

\* int(0.4 * n)
FortyPercent(n) == (4 * n) \div 10

\* r6 counts the words that are chord names, ip2 the characters that are
check_for_chord_line(line) ==
    IF line = << >> THEN FALSE
    ELSE LET words == Split(line)
             thirty_percent_count == FortyPercent(Len(words))
             match_count ==
                 IF variant = "r6"
                 THEN Cardinality({ k \in 1..Len(words) :
                          StripText(Without(Without(words[k], "["), "]")) \in CHORDS })
                 ELSE Cardinality({ k \in 1..Len(line) : << line[k] >> \in CHORDS })
         IN  match_count >= thirty_percent_count

\* re.search(r"[\a-zA-Z\s]+", t): the class is the range from BEL to 'z', so of the
\* printable ASCII characters only these four are outside it
OutsidePattern == { "{", "|", "}", "~" }
MatchesPattern(t) == \E k \in 1..Len(t) : t[k] \notin OutsidePattern

\* a categoriser that tries the chord test before the bracket test
categorize_line_ChordsFirst(line) ==
    LET cleaned == StripText(line)
    IN  IF check_for_chord_line(cleaned) THEN "chords"
        ELSE IF Contains(cleaned, << "[" >>) /\ Contains(cleaned, << "]" >>)
             THEN "sections"
        ELSE IF MatchesPattern(cleaned)
             THEN IF ~Contains(cleaned, << "Z", "Z", "Z" >>) THEN "lyrics" ELSE "beats"
        ELSE "None"

categorize_line(line) ==
    LET cleaned == StripText(line)
    IN  IF Contains(cleaned, << "[" >>) /\ Contains(cleaned, << "]" >>)
        THEN "sections"
        ELSE IF check_for_chord_line(cleaned) THEN "chords"
        ELSE IF MatchesPattern(cleaned)
             THEN IF ~Contains(cleaned, << "Z", "Z", "Z" >>) THEN "lyrics" ELSE "beats"
        ELSE "None"

\* one turn of the loop over remaining_lines; a beat line gets an entry of
\* beat_chord_word_data when a chord line and a lyric line of its index exist
CategorizeLine ==
    /\ pc = "categorize"
    /\ remaining_lines # << >>
    /\ LET line == Head(remaining_lines)
           line_type == categorize_line(line)
           beat_line_index == Len(beats)
       IN  /\ sections' = IF line_type = "sections" THEN Append(sections, line)
                          ELSE sections
           /\ chords' = IF line_type = "chords" THEN Append(chords, line) ELSE chords
           /\ lyrics' = IF line_type = "lyrics" THEN Append(lyrics, line) ELSE lyrics
           /\ beats' = IF line_type = "beats" THEN Append(beats, line) ELSE beats
           /\ beat_data_lines' =
                 IF /\ line_type = "beats"
                    /\ beat_line_index < Len(chords)
                    /\ beat_line_index < Len(lyrics)
                 THEN beat_data_lines \cup { beat_line_index }
                 ELSE beat_data_lines
    /\ remaining_lines' = Tail(remaining_lines)
    /\ UNCHANGED << otherVars, variant, song, beats_per_measure, playVars, crashed, pc,
                    time_signature_str, note_value, cleaned_line, Line, song_data,
                    title >>

\* the k-th entry of a stream after the in-place cleaning loop over the first n
Cleaned(stream, n) ==
    [k \in 1..Len(stream) |-> IF k <= n THEN get_rid_of_LL(stream[k]) ELSE stream[k]]

\* the loop is over; r6 strips the tags of the aligned entries in place
FinishLoad ==
    /\ pc = "categorize"
    /\ remaining_lines = << >>
    /\ LET n == Min(LINES_IN_SONG, Min(Len(lyrics), Min(Len(chords), Len(beats))))
       IN  IF variant = "r6"
           THEN /\ lyrics' = Cleaned(lyrics, n)
                /\ chords' = Cleaned(chords, n)
                /\ beats' = Cleaned(beats, n)
           ELSE UNCHANGED << lyrics, chords, beats >>
    /\ pc' = "loaded"
    /\ UNCHANGED << otherVars, variant, song, beats_per_measure, playVars, crashed,
                    time_signature_str, note_value, cleaned_line, Line, song_data,
                    title, sections, remaining_lines, beat_data_lines >>

\* --------------------------------------------------------------- alignment
R6_MAX_BEAT == 15
IP2_MAX_BEAT == 10
\* the upper limit of  if 1 <= beat_num <= ...
MaxBeat == IF variant = "r6" THEN R6_MAX_BEAT ELSE IP2_MAX_BEAT

\* re.finditer(r'\d+', t): every match with its start(), t beginning at offset off
RECURSIVE FindRuns(_, _)
FindRuns(t, off) ==
    IF t = << >> THEN << >>
    ELSE IF ~IsDigit(Head(t)) THEN FindRuns(Tail(t), off + 1)
    ELSE LET n == CHOOSE n \in 1..Len(t) :
                     /\ \A j \in 1..n : IsDigit(t[j])
                     /\ (n = Len(t) \/ ~IsDigit(t[n + 1]))
         IN  << << SubSeq(t, 1, n), off >> >>
                \o FindRuns(SubSeq(t, n + 1, Len(t)), off + n)

\* the function without its range test
find_beat_positions_NoRange(line) ==
    LET runs == FindRuns(line, 0)
    IN  [k \in 1..Len(runs) |-> << IntOf(runs[k][1]), runs[k][2] >>]

find_beat_positions(line) ==
    LET runs == FindRuns(line, 0)
        kept == SelectSeq(runs, LAMBDA r : 1 <= IntOf(r[1]) /\ IntOf(r[1]) <= MaxBeat)
    IN  [k \in 1..Len(kept) |-> << IntOf(kept[k][1]), kept[k][2] >>]

\* while start > 0 and line[start-1] != ' ': start -= 1
RECURSIVE ScanLeft(_, _)
ScanLeft(line, start) ==
    IF start > 0 /\ line[start] # " " THEN ScanLeft(line, start - 1) ELSE start

\* while end < len(line) and line[end] != ' ': end += 1
RECURSIVE ScanRight(_, _)
ScanRight(line, end) ==
    IF end < Len(line) /\ line[end + 1] # " " THEN ScanRight(line, end + 1) ELSE end

\* char_index counts from 0; line[start:end].strip()
extract_item_at_position(line, char_index) ==
    IF char_index >= Len(line) THEN << >>
    ELSE StripText(SubSeq(line, ScanLeft(line, char_index) + 1,
                          ScanRight(line, char_index)))

\* an aligner that makes one entry per beat number, not per position
extract_chords_and_words_Dedup(chords_line, words_line, positions) ==
    LET firsts == SelectSeq([k \in 1..Len(positions) |-> << k, positions[k] >>],
                    LAMBDA e : \A j \in 1..(e[1] - 1) : positions[j][1] # e[2][1])
    IN  [k \in 1..Len(firsts) |->
            << firsts[k][2][1],
               extract_item_at_position(chords_line, firsts[k][2][2]),
               extract_item_at_position(words_line, firsts[k][2][2]) >>]

extract_chords_and_words(chords_line, words_line, positions) ==
    [k \in 1..Len(positions) |->
        << positions[k][1],
           extract_item_at_position(chords_line, positions[k][2]),
           extract_item_at_position(words_line, positions[k][2]) >>]

\* beat_positions = find_beat_positions(cleaned_beat_line)
FindBeatPositions ==
    /\ pc = "beat_positions"
    /\ beat_positions' = find_beat_positions(beat_line)
    /\ pc' = "extract"
    /\ UNCHANGED << variant, song, beats_per_measure, playVars, crashed, recVars,
                    time_signature_str, note_value, cleaned_line, Line, sheetVars,
                    beat_line, chord_line, lyric_line, chord_word_data >>

\* chord_word_data = extract_chords_and_words(chord_line, lyric_line, beat_positions)
ExtractChordsAndWords ==
    /\ pc = "extract"
    /\ chord_word_data' = extract_chords_and_words(chord_line, lyric_line, beat_positions)
    /\ pc' = "aligned"
    /\ UNCHANGED << variant, song, beats_per_measure, playVars, crashed, recVars,
                    time_signature_str, note_value, cleaned_line, Line, sheetVars,
                    beat_line, chord_line, lyric_line, beat_positions >>

\* --------------------------------------------------- hiflite3: the recorder
\* The threads start_recording can create in one run, and the streams they
\* read: start_recording opens one stream per thread and passes it to the
\* worker as its argument, so thread w reads stream w.
Threads == 1..MaxThreads

\* the threads start_recording has created so far
Started == { w \in Threads : worker_pc[w] # "unborn" }

\* the threads still inside record_audio_worker
Alive == { w \in Threads : worker_pc[w] \in { "check", "read", "append" } }

\* what the handlers of hiflite3 leave alone (scroll_offset and current_line,
\* which only position the text, are not part of the state)
HiFliteStatic ==
    UNCHANGED << variant, song, beats_per_measure, alignVars, crashed,
                 time_signature_str, note_value, cleaned_line, Line, sheetVars,
                 current_index, bounce_count, ball_y, bounce_start_time, pause_time,
                 dragging, song_line_number, rising, falling, speed_index,
                 current_time, wall, circle_center_x, n_events, highlight,
                 pause_snap, start_speed, BEAT_NUMBERS >>

\* the main thread is in the event loop, not blocked inside stop_recording
InEventLoop == pc = "hiflite"

\* start_recording, the try block succeeding
StartRecordingOpens ==
    /\ ~is_recording
    /\ Started # Threads
    /\ LET w == Cardinality(Started) + 1 IN
         /\ p_audio' = "PyAudio"
         /\ audio_stream' = w
         /\ open_streams' = open_streams \cup { w }
         /\ audio_frames' = << >>
         /\ is_recording' = TRUE
         /\ recording_thread' = w
         /\ worker_pc' = [worker_pc EXCEPT ![w] = "check"]
    /\ UNCHANGED << stop_returned, pc >>

\* start_recording, p_audio.open raising: the except branch
StartRecordingFails ==
    /\ ~is_recording
    /\ p_audio' = "PyAudio"
    /\ is_recording' = FALSE
    /\ UNCHANGED << audio_stream, open_streams, audio_frames, recording_thread,
                    worker_pc, stop_returned, pc >>

\* stop_recording up to the join: the flag is cleared and the main thread waits
StopRecordingBegins ==
    /\ is_recording
    /\ is_recording' = FALSE
    /\ pc' = "join"
    /\ UNCHANGED << p_audio, audio_stream, open_streams, audio_frames,
                    recording_thread, worker_pc, stop_returned >>

\* stop_recording after the join: close the stream, save, reset the globals
StopRecordingReturns ==
    /\ open_streams' = IF audio_stream # None THEN open_streams \ { audio_stream }
                                            ELSE open_streams
    /\ audio_frames' = << >>
    /\ audio_stream' = None
    /\ p_audio' = "None"
    /\ stop_returned' = IF recording_thread # None
                        THEN stop_returned \cup { recording_thread }
                        ELSE stop_returned
    /\ recording_thread' = None
    /\ pc' = "hiflite"
    /\ UNCHANGED << is_recording, worker_pc >>

\* recording_thread.join(timeout=1.0) returning because the worker has ended
JoinFinished ==
    /\ pc = "join"
    /\ recording_thread # None => worker_pc[recording_thread] = "done"
    /\ StopRecordingReturns
    /\ UNCHANGED << playback_mode, waiting_for_start, song_paused >>
    /\ HiFliteStatic

\* recording_thread.join(timeout=1.0) giving up after a second with the worker
\* still inside its loop
JoinTimesOut ==
    /\ pc = "join"
    /\ recording_thread # None
    /\ recording_thread \in Alive
    /\ StopRecordingReturns
    /\ UNCHANGED << playback_mode, waiting_for_start, song_paused >>
    /\ HiFliteStatic

\* toggle_recording
toggle_recording ==
    IF is_recording THEN StopRecordingBegins
                    ELSE StartRecordingOpens \/ StartRecordingFails

\* record_audio_worker: the test of `while is_recording`
WorkerCheck(w) ==
    /\ worker_pc[w] = "check"
    /\ worker_pc' = [worker_pc EXCEPT ![w] = IF is_recording THEN "read" ELSE "done"]
    /\ UNCHANGED << is_recording, recording_thread, audio_frames, audio_stream,
                    p_audio, playback_mode, open_streams, stop_returned, pc,
                    waiting_for_start, song_paused >>
    /\ HiFliteStatic

\* record_audio_worker: stream.read(chunk) returning data, or raising on a
\* stream that has been closed (the except branch breaks out of the loop)
WorkerRead(w) ==
    /\ worker_pc[w] = "read"
    /\ w \in open_streams => Len(audio_frames) < MaxFrames
    /\ worker_pc' = [worker_pc EXCEPT ![w] = IF w \in open_streams THEN "append"
                                                                  ELSE "done"]
    /\ UNCHANGED << is_recording, recording_thread, audio_frames, audio_stream,
                    p_audio, playback_mode, open_streams, stop_returned, pc,
                    waiting_for_start, song_paused >>
    /\ HiFliteStatic

\* record_audio_worker: audio_frames.append(data), on the list the global names
\* at that moment
WorkerAppend(w) ==
    /\ worker_pc[w] = "append"
    /\ audio_frames' = Append(audio_frames, w)
    /\ worker_pc' = [worker_pc EXCEPT ![w] = "check"]
    /\ UNCHANGED << is_recording, recording_thread, audio_stream, p_audio,
                    playback_mode, open_streams, stop_returned, pc,
                    waiting_for_start, song_paused >>
    /\ HiFliteStatic

RecorderUnchanged ==
    UNCHANGED << is_recording, recording_thread, audio_frames, audio_stream,
                 p_audio, open_streams, stop_returned, worker_pc, pc >>

\* the "playback_mode" button: cycle normal -> idle -> active -> normal
PlaybackModeButton ==
    /\ InEventLoop
    /\ playback_mode' = CASE playback_mode = "normal" -> "playback_idle"
                          [] playback_mode = "playback_idle" -> "playback_active"
                          [] OTHER -> "normal"
    /\ UNCHANGED << waiting_for_start, song_paused >>
    /\ RecorderUnchanged
    /\ HiFliteStatic

\* the space key and the Play/Pause rectangle: start, resume or pause the text
HiFliteTogglePlay ==
    /\ waiting_for_start' = FALSE
    /\ song_paused' = IF waiting_for_start THEN song_paused ELSE ~song_paused

HiFliteKeySpace ==
    /\ InEventLoop
    /\ HiFliteTogglePlay
    /\ UNCHANGED playback_mode
    /\ RecorderUnchanged
    /\ HiFliteStatic

\* the R key and the Restart rectangle
HiFliteKeyR ==
    /\ InEventLoop
    /\ waiting_for_start' = TRUE
    /\ song_paused' = FALSE
    /\ UNCHANGED playback_mode
    /\ RecorderUnchanged
    /\ HiFliteStatic

\* the "forward" button
HiFliteForward ==
    /\ InEventLoop
    /\ IF playback_mode = "normal"
       THEN HiFliteTogglePlay /\ UNCHANGED playback_mode
       ELSE /\ playback_mode' = IF playback_mode = "playback_idle"
                                THEN "playback_active" ELSE "playback_idle"
            /\ UNCHANGED << waiting_for_start, song_paused >>
    /\ RecorderUnchanged
    /\ HiFliteStatic

\* the "pause" button
HiFlitePause ==
    /\ InEventLoop
    /\ IF playback_mode = "normal"
       THEN /\ song_paused' = IF waiting_for_start THEN song_paused ELSE ~song_paused
            /\ UNCHANGED << waiting_for_start, playback_mode >>
       ELSE /\ playback_mode' = "playback_idle"
            /\ UNCHANGED << waiting_for_start, song_paused >>
    /\ RecorderUnchanged
    /\ HiFliteStatic

\* the "stop_eject" button
HiFliteStopEject ==
    /\ InEventLoop
    /\ playback_mode' = IF playback_mode # "normal" THEN "playback_idle" ELSE "normal"
    /\ waiting_for_start' = TRUE
    /\ song_paused' = FALSE
    /\ RecorderUnchanged
    /\ HiFliteStatic

\* the "record" button: only in normal mode
RecordButton ==
    /\ InEventLoop
    /\ IF playback_mode = "normal"
       THEN toggle_recording
       ELSE RecorderUnchanged
    /\ UNCHANGED << playback_mode, waiting_for_start, song_paused >>
    /\ HiFliteStatic

\* ---------------------------------------------------------------- Init
\* no triple is being aligned
NoAlign ==
    /\ beat_line = << >> /\ chord_line = << >> /\ lyric_line = << >>
    /\ beat_positions = << >>
    /\ chord_word_data = << >>

\* the module-level recorder and playback-mode globals
NoRecorder ==
    /\ is_recording = FALSE
    /\ recording_thread = None
    /\ audio_frames = << >>
    /\ audio_stream = None
    /\ p_audio = "None"
    /\ playback_mode = "normal"
    /\ worker_pc = [w \in Threads |-> "unborn"]
    /\ open_streams = {}
    /\ stop_returned = {}

OthersIdle == NoAlign /\ NoRecorder

\* sections, chords, lyrics, beats = [], [], [], []  and no sheet read yet
NoSheet ==
    /\ song_data = << >>
    /\ title = << >>
    /\ sections = << >> /\ chords = << >> /\ lyrics = << >> /\ beats = << >>
    /\ remaining_lines = << >>
    /\ beat_data_lines = {}

\* the main loop with the sheet already loaded: nothing of the loader is in progress
LoaderIdle ==
    /\ pc = "play"
    /\ time_signature_str = << >>
    /\ note_value = 4
    /\ cleaned_line = << >>
    /\ Line = << >>
    /\ NoSheet

\* the reset at the top of the session loop
SessionReset ==
    /\ current_index = 0
    /\ bounce_count = 0
    /\ ball_y = TopS
    /\ bounce_start_time = None
    /\ song_paused = FALSE
    /\ pause_time = 0
    /\ waiting_for_start = TRUE
    /\ dragging = FALSE
    /\ song_line_number = 1
    /\ rising = FALSE
    /\ falling = TRUE
    /\ speed_index = 0
    /\ wall = 1
    /\ current_time = 1
    /\ circle_center_x = None
    /\ crashed = FALSE
    /\ n_events = 0
    /\ highlight = NoHighlight
    /\ pause_snap = NoSnap
    /\ start_speed = 0

\* the program about to parse line 2 of the sheet
InitTimeSig ==
    /\ variant = "r6"
    /\ song = [lyrics |-> 2, tagged |-> 2, beat_numbers |-> <<1, 2>>]
    /\ beats_per_measure = 4
    /\ SessionReset
    /\ pc = "time_signature"
    /\ time_signature_str \in SigStrings
    /\ note_value = 4
    /\ cleaned_line = << >>
    /\ Line = << >>
    /\ NoSheet
    /\ OthersIdle
    /\ BEAT_NUMBERS = BeatNumbersAtLoad

\* the program about to strip a raw line
InitStrip ==
    /\ variant \in Variants
    /\ song = [lyrics |-> 2, tagged |-> 2, beat_numbers |-> <<1, 2>>]
    /\ beats_per_measure = 4
    /\ SessionReset
    /\ pc = "strip"
    /\ cleaned_line \in StripLines
    /\ Line = << >>
    /\ time_signature_str = << >>
    /\ note_value = 4
    /\ NoSheet
    /\ OthersIdle
    /\ BEAT_NUMBERS = BeatNumbersAtLoad

\* the program about to align the three cleaned lines of a triple
InitAlign ==
    /\ variant \in Variants
    /\ song = [lyrics |-> 2, tagged |-> 2, beat_numbers |-> <<1, 2>>]
    /\ beats_per_measure = (IF variant = "r6" THEN 4 ELSE 3)
    /\ SessionReset
    /\ pc = "beat_positions"
    /\ time_signature_str = << >>
    /\ note_value = 4
    /\ cleaned_line = << >>
    /\ Line = << >>
    /\ NoSheet
    /\ beat_line \in BeatStrings
    /\ chord_line \in ChordStrings
    /\ lyric_line \in LyricStrings
    /\ beat_positions = << >>
    /\ chord_word_data = << >>
    /\ NoRecorder
    /\ BEAT_NUMBERS = BeatNumbersAtLoad

\* the program about to read the lines of a sheet
InitParse ==
    /\ variant \in Variants
    /\ song = [lyrics |-> 2, tagged |-> 2, beat_numbers |-> <<1, 2>>]
    /\ beats_per_measure = (IF variant = "r6" THEN 4 ELSE 3)
    /\ SessionReset
    /\ pc = "load"
    /\ song_data \in Sheets
    /\ time_signature_str = << >>
    /\ note_value = 4
    /\ cleaned_line = << >>
    /\ Line = << >>
    /\ title = << >>
    /\ sections = << >> /\ chords = << >> /\ lyrics = << >> /\ beats = << >>
    /\ remaining_lines = << >>
    /\ beat_data_lines = {}
    /\ OthersIdle
    /\ BEAT_NUMBERS = BeatNumbersAtLoad

\* hiflite3 entering its main loop
InitRecord ==
    /\ variant = "hiflite3"
    /\ song = [lyrics |-> 2, tagged |-> 2, beat_numbers |-> <<1, 2>>]
    /\ beats_per_measure = 4
    /\ SessionReset
    /\ pc = "hiflite"
    /\ time_signature_str = << >>
    /\ note_value = 4
    /\ cleaned_line = << >>
    /\ Line = << >>
    /\ NoSheet
    /\ OthersIdle
    /\ BEAT_NUMBERS = << >>

Init ==
    /\ variant \in Variants
    /\ song \in Songs
    /\ beats_per_measure \in (IF variant = "r6" THEN Numerators ELSE {3})
    /\ SessionReset
    /\ LoaderIdle
    /\ OthersIdle
    /\ BEAT_NUMBERS = BeatNumbersAtLoad

\* ------------------------------------------------------------ handlers
\* the start branch of handle_play_pause_action
StartBranch(t) ==
    /\ current_index' = IF current_index > 0 THEN 0 ELSE current_index
    /\ waiting_for_start' = FALSE
    /\ bounce_start_time' = t
    /\ start_speed' = speed_index
    /\ pause_snap' = NoSnap
    /\ crashed' = FALSE
    /\ UNCHANGED << bounce_count, ball_y, song_paused, pause_time, dragging,
                    song_line_number, rising, falling, speed_index >>

\* a resume that clears the pause flag without shifting bounce_start_time
ResumeBranch_NoShift(t) ==
    IF bounce_start_time = None
    THEN Crash
    ELSE /\ bounce_start_time' = bounce_start_time
         /\ song_paused' = FALSE
         /\ pause_snap' = Resumed(t)
         /\ crashed' = FALSE
         /\ UNCHANGED << current_index, bounce_count, ball_y, pause_time,
                         waiting_for_start, dragging, song_line_number, rising,
                         falling, speed_index, start_speed >>

\* resume: bounce_start_time += current_time - pause_time
ResumeBranch(t) ==
    IF bounce_start_time = None
    THEN Crash
    ELSE /\ bounce_start_time' = bounce_start_time + (t - pause_time)
         /\ song_paused' = FALSE
         /\ pause_snap' = Resumed(t)
         /\ crashed' = FALSE
         /\ UNCHANGED << current_index, bounce_count, ball_y, pause_time,
                         waiting_for_start, dragging, song_line_number, rising,
                         falling, speed_index, start_speed >>

\* pause: song_paused = True; pause_time = current_time
PauseBranch(t) ==
    /\ song_paused' = TRUE
    /\ pause_time' = t
    /\ pause_snap' = Snap(t)
    /\ crashed' = FALSE
    /\ UNCHANGED << current_index, bounce_count, ball_y, bounce_start_time,
                    waiting_for_start, dragging, song_line_number, rising,
                    falling, speed_index, start_speed >>

handle_play_pause_action(t) ==
    IF waiting_for_start THEN StartBranch(t)
    ELSE IF song_paused THEN ResumeBranch(t)
    ELSE PauseBranch(t)

\* K_r, the Restart button and the stop_eject control
RestartAction ==
    /\ current_index' = 0
    /\ bounce_count' = 0
    /\ waiting_for_start' = TRUE
    /\ ball_y' = TopS
    /\ song_line_number' = 1
    /\ bounce_start_time' = None
    /\ song_paused' = FALSE
    /\ pause_snap' = NoSnap
    /\ crashed' = FALSE
    /\ UNCHANGED << pause_time, dragging, rising, falling, speed_index, start_speed >>

KeySpace ==
    /\ ~crashed
    /\ handle_play_pause_action(current_time)
    /\ Static /\ Frame /\ UNCHANGED wall

PlayPauseButton ==
    /\ ~crashed
    /\ handle_play_pause_action(current_time)
    /\ Static /\ Frame /\ UNCHANGED wall

KeyR ==
    /\ ~crashed
    /\ RestartAction
    /\ Static /\ Frame /\ UNCHANGED wall

RestartButton ==
    /\ ~crashed
    /\ RestartAction
    /\ Static /\ Frame /\ UNCHANGED wall

\* "forward" of handle_controls_click (r6): starts without resetting current_index
ForwardR6(t) ==
    IF waiting_for_start
    THEN /\ waiting_for_start' = FALSE
         /\ bounce_start_time' = t
         /\ song_paused' = FALSE
         /\ start_speed' = speed_index
         /\ pause_snap' = NoSnap
         /\ crashed' = FALSE
         /\ UNCHANGED << current_index, bounce_count, ball_y, pause_time, dragging,
                         song_line_number, rising, falling, speed_index >>
    ELSE IF song_paused THEN ResumeBranch(t)
    ELSE PauseBranch(t)

ControlsForward ==
    /\ ~crashed
    /\ \E t \in ClickTimes :
          /\ IF variant = "r6" THEN ForwardR6(t) ELSE handle_play_pause_action(t)
          /\ wall' = t
    /\ Static /\ Frame

\* "pause" control: toggles only when the song has started
PauseToggle(t) ==
    IF ~waiting_for_start
    THEN IF song_paused THEN ResumeBranch(t) ELSE PauseBranch(t)
    ELSE /\ UNCHANGED << clockVars, speed_index, start_speed, crashed >>
         /\ pause_snap' = NoSnap

ControlsPause ==
    /\ ~crashed
    /\ \E t \in ClickTimes : PauseToggle(t) /\ wall' = t
    /\ Static /\ Frame

ControlsStopEject ==
    /\ ~crashed
    /\ \E t \in ClickTimes : RestartAction /\ wall' = t
    /\ Static /\ Frame

\* a line step to new_index; set_start says whether bounce_start_time is reset
LineStep(new_index, new_line_number, set_start, t) ==
    /\ current_index' = new_index
    /\ bounce_count' = 0
    /\ ball_y' = TopS
    /\ song_line_number' = new_line_number
    /\ bounce_start_time' = IF set_start THEN t ELSE bounce_start_time
    /\ start_speed' = IF set_start THEN speed_index ELSE start_speed
    /\ pause_snap' = NoSnap
    /\ crashed' = FALSE
    /\ UNCHANGED << song_paused, pause_time, waiting_for_start, dragging, rising,
                    falling, speed_index >>

NoStep ==
    /\ UNCHANGED << clockVars, speed_index, start_speed, crashed >>
    /\ pause_snap' = NoSnap

FastForward(t) ==
    IF variant = "r6"
    THEN IF current_index < LenLyrics - 1
         THEN LineStep(current_index + 1, song_line_number + 1, TRUE, t)
         ELSE NoStep
    ELSE IF current_index < LenLyrics - IP2_STEP
         THEN LineStep(current_index + IP2_STEP, current_index + IP2_STEP + 1,
                       ~waiting_for_start, t)
         ELSE NoStep

FastRewind(t) ==
    IF variant = "r6"
    THEN IF current_index > 0
         THEN LineStep(current_index - 1, song_line_number - 1, TRUE, t)
         ELSE NoStep
    ELSE IF current_index >= IP2_STEP
         THEN LineStep(current_index - IP2_STEP, current_index - IP2_STEP + 1,
                       ~waiting_for_start, t)
         ELSE NoStep

ControlsFastForward ==
    /\ ~crashed
    /\ \E t \in ClickTimes : FastForward(t) /\ wall' = t
    /\ Static /\ Frame

ControlsFastRewind ==
    /\ ~crashed
    /\ \E t \in ClickTimes : FastRewind(t) /\ wall' = t
    /\ Static /\ Frame

\* MOUSEBUTTONDOWN within CLICK_RADIUS of the indicator circle
GrabIndicator ==
    /\ dragging' = TRUE
    /\ song_paused' = TRUE
    /\ waiting_for_start' = FALSE
    /\ pause_snap' = NoSnap
    /\ crashed' = FALSE
    /\ UNCHANGED << current_index, bounce_count, ball_y, bounce_start_time, pause_time,
                    song_line_number, rising, falling, speed_index, start_speed >>

DragStart ==
    /\ ~crashed
    /\ circle_center_x # None
    /\ GrabIndicator
    /\ Static /\ Frame /\ UNCHANGED wall

\* one MOUSEBUTTONDOWN that grabs the indicator and also lies in the Play/Pause
\* rectangle: the grab pauses, then handle_play_pause_action resumes
DragStartOnPlayButton ==
    /\ ~crashed
    /\ HitsCircleAndPlay(circle_center_x)
    /\ IF bounce_start_time = None
       THEN /\ crashed' = TRUE
            /\ dragging' = TRUE
            /\ song_paused' = TRUE
            /\ waiting_for_start' = FALSE
            /\ pause_snap' = NoSnap
            /\ UNCHANGED << current_index, bounce_count, ball_y, bounce_start_time,
                            pause_time, song_line_number, rising, falling,
                            speed_index, start_speed >>
       ELSE /\ dragging' = TRUE
            /\ waiting_for_start' = FALSE
            /\ song_paused' = FALSE
            /\ bounce_start_time' = bounce_start_time + (current_time - pause_time)
            /\ pause_snap' = NoSnap
            /\ crashed' = FALSE
            /\ UNCHANGED << current_index, bounce_count, ball_y, pause_time,
                            song_line_number, rising, falling, speed_index,
                            start_speed >>
    /\ Static /\ Frame /\ UNCHANGED wall

\* MOUSEBUTTONUP while dragging
ReleaseIndicator ==
    /\ dragging' = FALSE
    /\ song_paused' = FALSE
    /\ bounce_count' = 0
    /\ bounce_start_time' = current_time
    /\ ball_y' = TopS
    /\ start_speed' = speed_index
    /\ pause_snap' = NoSnap
    /\ crashed' = FALSE
    /\ UNCHANGED << current_index, pause_time, waiting_for_start, song_line_number,
                    rising, falling, speed_index >>

MouseButtonUp ==
    /\ ~crashed
    /\ dragging
    /\ ReleaseIndicator
    /\ Static /\ Frame /\ UNCHANGED wall

\* new_index of MOUSEMOTION for a pointer at mouse_x
DragIndex(mouse_x) ==
    IF variant = "r6"
    THEN Max(0, Min((mouse_x * LINES_IN_SONG) \div screen_width, LINES_IN_SONG - 1))
    ELSE Max(0, Min((mouse_x * IP2_DRAG_LINES) \div screen_width, IP2_DRAG_LINES - 1))

DragTo(mouse_x) ==
    /\ current_index' = DragIndex(mouse_x)
    /\ pause_snap' = NoSnap
    /\ crashed' = FALSE
    /\ UNCHANGED << bounce_count, ball_y, bounce_start_time, song_paused, pause_time,
                    waiting_for_start, dragging, song_line_number, rising, falling,
                    speed_index, start_speed >>

MouseMotion ==
    /\ ~crashed
    /\ dragging
    /\ \E mouse_x \in MouseXs : DragTo(mouse_x)
    /\ Static /\ Frame /\ UNCHANGED wall

\* the speed slider moved to stop i: BOUNCE_DURATION = BASE / speed_values[i],
\* calculateGravity()
SetSpeed(i) ==
    /\ speed_index' = i
    /\ pause_snap' = NoSnap
    \* history: a speed set in the frame in which the bounce began, before any of
    \* its ticks, counts as in force when the bounce started
    /\ start_speed' = IF bounce_start_time # None /\ bounce_start_time >= current_time
                      THEN i ELSE start_speed
    /\ UNCHANGED << clockVars, crashed >>

SpeedSlider ==
    /\ ~crashed
    /\ \E i \in SliderStops : i # speed_index /\ SetSpeed(i)
    /\ Static /\ Frame /\ UNCHANGED wall

\* ------------------------------------------------------------------ Tick
\* bounce completion: the else branch of  if dt <= BOUNCE_DURATION
CompleteBounce ==
    LET n == bounce_count + 1
        last == IF variant = "r6" THEN LINES_IN_SONG - 1 ELSE LINES_IN_SONG
    IN  /\ bounce_start_time' = current_time
        /\ start_speed' = speed_index
        /\ ball_y' = TopS
        /\ IF n >= BOUNCES_PER_LINE
           THEN /\ bounce_count' = 0
                /\ IF current_index < last
                   THEN /\ current_index' = current_index + 1
                        /\ song_line_number' = song_line_number + 1
                        /\ UNCHANGED waiting_for_start
                   ELSE /\ waiting_for_start' = TRUE
                        /\ UNCHANGED << current_index, song_line_number >>
           ELSE /\ bounce_count' = n
                /\ UNCHANGED << current_index, song_line_number, waiting_for_start >>
        /\ UNCHANGED << song_paused, pause_time, dragging, rising, falling >>

\* the timing logic of a frame that evaluates time
AdvanceBall ==
    LET dt == current_time - bounce_start_time
    IN  IF WithinBounce(dt, speed_index)
        THEN /\ IF WithinFall(dt, speed_index)
                THEN /\ falling' = TRUE
                     /\ rising' = FALSE
                     /\ ball_y' = FallingBallY(dt, speed_index)
                ELSE /\ falling' = FALSE
                     /\ rising' = TRUE
                     /\ ball_y' = RisingBallY(dt, speed_index)
             /\ UNCHANGED << current_index, bounce_count, bounce_start_time,
                             song_paused, pause_time, waiting_for_start, dragging,
                             song_line_number, start_speed >>
        ELSE CompleteBounce

\* a frame that lacks the  if song_paused or dragging: continue  guard
FrameLogic_NoPauseGuard ==
    IF waiting_for_start /\ current_index = 0 /\ ~dragging
    THEN /\ ball_y' = TopS
         /\ UNCHANGED << current_index, bounce_count, bounce_start_time, song_paused,
                         pause_time, waiting_for_start, dragging, song_line_number,
                         rising, falling, start_speed, crashed >>
    ELSE IF waiting_for_start
    THEN /\ ball_y' = TopS
         /\ UNCHANGED << current_index, bounce_count, bounce_start_time, song_paused,
                         pause_time, waiting_for_start, dragging, song_line_number,
                         rising, falling, start_speed, crashed >>
    ELSE IF bounce_start_time = None
    THEN /\ crashed' = TRUE
         /\ UNCHANGED << clockVars, start_speed >>
    ELSE AdvanceBall /\ UNCHANGED crashed

\* the frame after its event loop
FrameLogic ==
    IF waiting_for_start /\ current_index = 0 /\ ~dragging
    THEN /\ ball_y' = TopS
         /\ UNCHANGED << current_index, bounce_count, bounce_start_time, song_paused,
                         pause_time, waiting_for_start, dragging, song_line_number,
                         rising, falling, start_speed, crashed >>
    ELSE IF song_paused \/ dragging
    THEN UNCHANGED << clockVars, start_speed, crashed >>
    ELSE IF waiting_for_start
    THEN /\ ball_y' = TopS
         /\ UNCHANGED << current_index, bounce_count, bounce_start_time, song_paused,
                         pause_time, waiting_for_start, dragging, song_line_number,
                         rising, falling, start_speed, crashed >>
    ELSE IF bounce_start_time = None
    THEN /\ crashed' = TRUE
         /\ UNCHANGED << clockVars, start_speed >>
    ELSE AdvanceBall /\ UNCHANGED crashed

\* rest of the frame, clock.tick(60), top of the next frame; the start screen
\* assigns BEAT_NUMBERS = BEAT_NUMS (r6), every other frame decides the highlight
\* before its timing logic
Tick ==
    /\ ~crashed
    /\ IF LookupRaises
       THEN /\ crashed' = TRUE
            /\ UNCHANGED << clockVars, start_speed, wall, current_time,
                            circle_center_x, highlight, pause_snap, BEAT_NUMBERS >>
       ELSE /\ FrameLogic
            /\ \E d \in Deltas :
                  /\ wall + d <= MaxTime
                  /\ wall' = wall + d
            /\ current_time' = wall'
            /\ circle_center_x' = CircleCenterX(waiting_for_start', current_index')
            /\ highlight' = IF StartScreen THEN NoHighlight ELSE Highlight
            /\ BEAT_NUMBERS' = IF StartScreen /\ variant = "r6" THEN BEAT_NUMS
                               ELSE BEAT_NUMBERS
            /\ pause_snap' = IF pause_snap.phase = "resumed" THEN NoSnap ELSE pause_snap
    /\ UNCHANGED << speed_index, n_events >>
    /\ Static

Next ==
    \/ KeySpace
    \/ PlayPauseButton
    \/ KeyR
    \/ RestartButton
    \/ ControlsForward
    \/ ControlsPause
    \/ ControlsStopEject
    \/ ControlsFastForward
    \/ ControlsFastRewind
    \/ DragStart
    \/ DragStartOnPlayButton
    \/ MouseButtonUp
    \/ MouseMotion
    \/ SpeedSlider
    \/ Tick

Spec == Init /\ [][Next]_vars

NextStrip == StripLine
SpecStrip == InitStrip /\ [][NextStrip]_vars

NextParse ==
    \/ LoadSheet
    \/ CategorizeLine
    \/ FinishLoad
SpecParse == InitParse /\ [][NextParse]_vars

NextAlign ==
    \/ FindBeatPositions
    \/ ExtractChordsAndWords
SpecAlign == InitAlign /\ [][NextAlign]_vars

NextRecord ==
    \/ HiFliteKeySpace
    \/ HiFliteKeyR
    \/ PlaybackModeButton
    \/ HiFliteForward
    \/ HiFlitePause
    \/ HiFliteStopEject
    \/ RecordButton
    \/ JoinFinished
    \/ JoinTimesOut
    \/ \E w \in Threads : WorkerCheck(w)
    \/ \E w \in Threads : WorkerRead(w)
    \/ \E w \in Threads : WorkerAppend(w)
SpecRecord == InitRecord /\ [][NextRecord]_vars

NextTimeSig == ParseTimeSignature
SpecTimeSig == InitTimeSig /\ [][NextTimeSig]_vars

\* =================================================================== claims

\* the index of the last parsed lyric line
lastLineIndex == LenLyrics - 1

\* the clock evaluates time in this frame
Running == ~waiting_for_start /\ ~song_paused /\ ~dragging

\* C1: after any sequence of intents and ticks, 0 <= lineIndex <= lastLineIndex.
C1_LineIndexInRange ==
    0 <= current_index /\ current_index <= lastLineIndex

\* C2: a pause by the toggle at time p followed, with no other intent in between,
\* by a resume by the toggle at time r >= p preserves the elapsed time within the
\* bounce exactly (r - bounceStartTime after = p - bounceStartTime before) and leaves
\* lineIndex, bounceCount, ballY and the falling/rising phase as they were at the pause.
C2_PauseResumePreservesElapsed ==
    (pause_snap.phase = "resumed" /\ pause_snap.r >= pause_snap.p) =>
        /\ ~song_paused
        /\ bounce_start_time # None
        /\ pause_snap.r - bounce_start_time = pause_snap.elapsed
        /\ current_index = pause_snap.idx
        /\ bounce_count = pause_snap.bc
        /\ ball_y = pause_snap.ball
        /\ rising = pause_snap.rising
        /\ falling = pause_snap.falling

\* C2 witness: the clock was paused in mid-bounce, frames passed while it was
\* paused, and the toggle has just resumed it.
C2_Witness ==
    /\ pause_snap.phase = "resumed"
    /\ pause_snap.r > pause_snap.p
    /\ pause_snap.elapsed > 0
    /\ pause_snap.ball # TopS

\* a Tick that completes a bounce
CompletionTick ==
    /\ Tick
    /\ Running
    /\ bounce_start_time # None
    /\ ~WithinBounce(current_time - bounce_start_time, speed_index)

\* C3: with the clock running and lineIndex < lastLineIndex, every bounce completion
\* adds exactly one to bounceCount, and the completion that makes it reach
\* bouncesPerLine (and no earlier one) sets it to 0 and adds exactly one to lineIndex.
C3_LineAdvancesEveryBouncesPerLine ==
    [][ (CompletionTick /\ current_index < lastLineIndex
           /\ 0 <= bounce_count /\ bounce_count < BOUNCES_PER_LINE) =>
          IF bounce_count + 1 < BOUNCES_PER_LINE
          THEN bounce_count' = bounce_count + 1 /\ current_index' = current_index
          ELSE bounce_count' = 0 /\ current_index' = current_index + 1 ]_vars

\* C4: start() in WaitingForStart, by the space key, the Play/Pause button or the
\* forward control, sets bounceStartTime = now, leaves the clock not waiting and not
\* paused, and resets lineIndex to 0 when it was > 0.
C4_StartFromEveryPath ==
    [][ (waiting_for_start /\ (KeySpace \/ PlayPauseButton \/ ControlsForward)) =>
          /\ bounce_start_time' = IF ControlsForward THEN wall' ELSE current_time
          /\ ~waiting_for_start'
          /\ ~song_paused'
          /\ (current_index > 0 => current_index' = 0) ]_vars

\* a seek or line-step handler
SeekOrStep ==
    ControlsFastForward \/ ControlsFastRewind \/ MouseMotion \/ MouseButtonUp

\* C5: a seek or line step while Paused keeps the Paused flag and leaves
\* bounceStartTime and pauseTime unchanged.
C5_SeekWhilePausedKeepsTimes ==
    [][ (song_paused /\ ~waiting_for_start /\ SeekOrStep) =>
          /\ song_paused'
          /\ bounce_start_time' = bounce_start_time
          /\ pause_time' = pause_time ]_vars

\* C6: the phase, ballY and completion of the bounce in progress are determined by
\* the bounceDuration that was in force when that bounce started (start_speed), not
\* by a speed set during the bounce.
C6_SpeedAppliesAtNextBounce ==
    [][ (Tick /\ Running /\ bounce_start_time # None) =>
          LET dt == current_time - bounce_start_time
          IN  IF WithinBounce(dt, start_speed)
              THEN /\ bounce_start_time' = bounce_start_time
                   /\ ball_y' = IF WithinFall(dt, start_speed)
                                THEN FallingBallY(dt, start_speed)
                                ELSE RisingBallY(dt, start_speed)
                   /\ rising' = ~WithinFall(dt, start_speed)
              ELSE bounce_start_time' = current_time ]_vars

\* C7: restart() from any state returns the clock to the state of a fresh session:
\* WaitingForStart, lineIndex = 0, bounceCount = 0, not paused, not seeking,
\* bounceStartTime = none, phase not Rising.
C7_RestartIsFreshSession ==
    [][ (KeyR \/ RestartButton \/ ControlsStopEject) =>
          /\ waiting_for_start'
          /\ current_index' = 0
          /\ bounce_count' = 0
          /\ ~song_paused'
          /\ ~dragging'
          /\ bounce_start_time' = None
          /\ ~rising' ]_vars

\* C8: seek and line-step intents received in WaitingForStart leave lineIndex,
\* bounceCount and bounceStartTime unchanged.
C8_SeekRejectedWhileWaiting ==
    [][ (waiting_for_start /\ SeekOrStep) =>
          UNCHANGED << current_index, bounce_count, bounce_start_time >> ]_vars

\* C9: a tick while Paused, Seeking or WaitingForStart leaves lineIndex, bounceCount,
\* bounceStartTime, pauseTime and the falling/rising flags unchanged, and leaves
\* ballY unchanged while paused or seeking.
C9_TickIsNoOpWhenSuspended ==
    [][ (Tick /\ (song_paused \/ dragging \/ waiting_for_start)) =>
          /\ UNCHANGED << current_index, bounce_count, bounce_start_time, pause_time,
                          rising, falling, song_paused, dragging, waiting_for_start >>
          /\ ((song_paused \/ dragging) => ball_y' = ball_y) ]_vars

\* C9 witness: the clock was paused in mid-bounce with the ball away from the top,
\* and a later frame has begun, so a tick has run while it was paused.
C9_Witness ==
    /\ song_paused
    /\ ~waiting_for_start
    /\ pause_snap.phase = "paused"
    /\ current_time > pause_time
    /\ ball_y # TopS
    /\ rising

\* C10: a seek while the clock is started sets lineIndex to the target clamped to
\* [0, lastLineIndex], resets bounceCount to 0 and ballY to top and, when not paused,
\* sets bounceStartTime = now, also when the target is out of range.
C10_SeekClampsAndResets ==
    [][ (~waiting_for_start /\ (ControlsFastForward \/ ControlsFastRewind \/ MouseButtonUp)) =>
          /\ 0 <= current_index' /\ current_index' <= lastLineIndex
          /\ bounce_count' = 0
          /\ ball_y' = TopS
          /\ (~song_paused =>
                bounce_start_time' = IF MouseButtonUp THEN current_time ELSE wall') ]_vars

\* now - bounceStartTime of the frame, in units of a quarter of 1/UnitsPerBase of
\* the bounce duration
ScaledDt == (current_time - bounce_start_time) * SpeedQ(speed_index)

\* a Tick whose frame evaluates the timing logic: the clock runs and the frame is not
\* ended by an exception before it gets there
TimingTick == Tick /\ Running /\ bounce_start_time # None /\ ~LookupRaises

C12_HighlightOnlyWhileRising ==
    [][ (Tick /\ highlight'.should_highlight_chord) =>
          /\ Running
          /\ bounce_start_time # None
          /\ ScaledDt > 2 * UnitsPerBase
          /\ ScaledDt <= 4 * UnitsPerBase ]_vars

\* C13: in every reachable state top <= ballY <= bottom.
C13_BallWithinTopAndBottom ==
    TopS <= ball_y /\ ball_y <= BottomS

\* C13 witness: the bounce start lies in the future of the frame (a control click
\* sampled the time after the frame did, or a resume shifted it), the timing logic
\* ran with dt < 0 and the fall was clamped at the bottom.
C13_Witness ==
    /\ Running
    /\ bounce_start_time # None
    /\ bounce_start_time > current_time
    /\ falling
    /\ ball_y = BottomS

\* the first entry, in offset order, of the line's BeatTable that carries beat b
FirstInOffsetOrder(data, b) ==
    LET hits == { i \in 1..Len(data) : data[i][1] = b }
    IN  CHOOSE i \in hits : \A j \in hits : i <= j

SlashAt == { k \in 1..Len(time_signature_str) : time_signature_str[k] = "/" }
FirstSlash == CHOOSE k \in SlashAt : \A j \in SlashAt : k <= j
PartN == SubSeq(time_signature_str, 1, FirstSlash - 1)
PartD ==
    LET after == { k \in SlashAt : k > FirstSlash }
        stop == IF after = {} THEN Len(time_signature_str) + 1
                ELSE CHOOSE k \in after : \A j \in after : k <= j
    IN  SubSeq(time_signature_str, FirstSlash + 1, stop - 1)

\* a part is numeric: digits, possibly with blanks around them
Numeric(t) ==
    \E a \in 1..Len(t), b \in 1..Len(t) :
       /\ a <= b
       /\ \A k \in 1..Len(t) : IF a <= k /\ k <= b THEN IsDigit(t[k]) ELSE t[k] = " "

\* the decimal value of the digits of t
RECURSIVE Decimal(_, _)
Decimal(t, acc) ==
    IF t = << >> THEN acc
    ELSE Decimal(Tail(t), IF IsDigit(Head(t)) THEN 10 * acc + DigitValue(Head(t)) ELSE acc)

\* the starts of the maximal digit runs of line 2, and the run starting at k
RunStarts ==
    { k \in 1..Len(time_signature_str) :
         /\ IsDigit(time_signature_str[k])
         /\ (k = 1 \/ ~IsDigit(time_signature_str[k - 1])) }
RunAt(k) ==
    LET e == CHOOSE e \in k..Len(time_signature_str) :
                 /\ \A j \in k..e : IsDigit(time_signature_str[j])
                 /\ (e = Len(time_signature_str) \/ ~IsDigit(time_signature_str[e + 1]))
    IN  SubSeq(time_signature_str, k, e)

\* C19: parse_time_signature never raises; N/D yields (N, D); without '/' the first
\* two integers found anywhere are used; every other input (a non-numeric or missing
\* part, fewer than two integers) yields (4, 4).
C19_TimeSignatureParsingIsTotal ==
    pc = "parsed" =>
       /\ ~crashed
       /\ IF SlashAt # {}
          THEN IF Numeric(PartN) /\ Numeric(PartD)
               THEN /\ beats_per_measure = Decimal(PartN, 0)
                    /\ note_value = Decimal(PartD, 0)
               ELSE beats_per_measure = 4 /\ note_value = 4
          ELSE IF Cardinality(RunStarts) >= 2
               THEN LET k1 == CHOOSE k \in RunStarts : \A j \in RunStarts : k <= j
                        rest == RunStarts \ {k1}
                        k2 == CHOOSE k \in rest : \A j \in rest : k <= j
                    IN  /\ beats_per_measure = Decimal(RunAt(k1), 0)
                        /\ note_value = Decimal(RunAt(k2), 0)
               ELSE beats_per_measure = 4 /\ note_value = 4

\* C19 witness: a line 2 with a '/' and a part that is not a number was parsed and
\* gave the default.
C19_Witness ==
    /\ pc = "parsed"
    /\ SlashAt # {}
    /\ ~Numeric(PartD)
    /\ \E k \in 1..Len(time_signature_str) : time_signature_str[k] = "3"
    /\ beats_per_measure = 4 /\ note_value = 4

\* C16: tag stripping is idempotent: get_rid_of_LL(get_rid_of_LL(x)) = get_rid_of_LL(x)
\* for every line x.
C16_StrippingIsIdempotent ==
    Len(Line) = 2 => Line[2] = Line[1]

\* C14: loading a sheet of fewer than 2 non-blank lines fails with a ParseError: it
\* never gets to categorise lines nor to finish, so no document is produced; a sheet
\* of at least 2 lines loads without error.
C14_ShortSheetFailsToLoad ==
    /\ Len(song_data) < 2 => pc \notin { "categorize", "loaded" }
    /\ Len(song_data) >= 2 => ~crashed

\* a line with both brackets, and the lines of the sheet categorised so far
HasBrackets(l) == Contains(l, << "[" >>) /\ Contains(l, << "]" >>)
CategorisedLines ==
    IF pc \in { "categorize", "loaded" }
    THEN SubSeq(song_data, 3, Len(song_data) - Len(remaining_lines))
    ELSE << >>

\* the chord, lyric and beat line of the i-th triple of the sheet (kind 1, 2, 3)
TripleLinesOfSheet == SelectSeq(SubSeq(song_data, 3, Len(song_data)),
                                LAMBDA l : ~HasBrackets(l))
NumTriples == Len(TripleLinesOfSheet) \div 3
LineOfTriple(i, kind) == TripleLinesOfSheet[3 * (i - 1) + kind]
\* a stream entry is a line of the sheet, with or without its tag
ComesFrom(entry, l) == entry = l \/ entry = get_rid_of_LL(l)

\* C15: once a well-formed sheet is loaded the chord, lyric and beat streams have
\* one entry per triple, and the i-th entry of each is the line of the i-th triple,
\* whatever the number of words of the lines.
C15_StreamsAlignWithTriples ==
    (pc = "loaded" /\ Len(song_data) >= 2) =>
       /\ Len(chords) = NumTriples
       /\ Len(lyrics) = NumTriples
       /\ Len(beats) = NumTriples
       /\ \A i \in 1..NumTriples :
             /\ ComesFrom(chords[i], LineOfTriple(i, 1))
             /\ ComesFrom(lyrics[i], LineOfTriple(i, 2))
             /\ ComesFrom(beats[i], LineOfTriple(i, 3))

\* C17: every categorised line with both '[' and ']' is in sections, in sheet order,
\* and no line with both brackets is in chords, lyrics or beats, whatever its tokens
\* and whether or not it carries the beat sentinel.
C17_BracketLinesAreSectionsOnly ==
    /\ sections = SelectSeq(CategorisedLines, HasBrackets)
    /\ \A k \in 1..Len(chords) : ~HasBrackets(chords[k])
    /\ \A k \in 1..Len(lyrics) : ~HasBrackets(lyrics[k])
    /\ \A k \in 1..Len(beats) : ~HasBrackets(beats[k])

\* C17 witness: a sheet whose section line has chord names for two of its three
\* tokens and carries the beat sentinel was loaded; the line is in sections and the
\* chord stream got the chord line only.
C17_Witness ==
    /\ pc = "loaded"
    /\ \E k \in 1..Len(sections) :
          /\ Contains(sections[k], << "Z", "Z", "Z" >>)
          /\ Contains(sections[k], << "G" >>)
    /\ Len(sections) = 2
    /\ Len(chords) >= 2

\* the words of a line that are chord names once their brackets are removed
ChordTokens(l) ==
    Cardinality({ k \in 1..Len(Split(l)) :
                     Without(Without(Split(l)[k], "["), "]") \in CHORDS })

\* C18: a line without both brackets goes to the chord stream exactly when the number
\* of its tokens that are chord names is at least floor(0.4 * number of tokens).
C18_ChordExactlyAtFortyPercentOfTokens ==
    [][ (pc = "categorize" /\ remaining_lines # << >>
            /\ ~HasBrackets(Head(remaining_lines)))
        => ( (chords' = Append(chords, Head(remaining_lines)))
             <=> (ChordTokens(Head(remaining_lines))
                    >= (4 * Len(Split(Head(remaining_lines)))) \div 10) ) ]_vars

\* C28: a line without both brackets none of whose tokens is a chord name is never
\* appended to the chord stream, whatever its number of tokens: it is appended to the
\* beat stream when it carries the sentinel 'ZZZ' and to the lyric stream otherwise.
C28_NoChordTokenNeverChord ==
    [][ (pc = "categorize" /\ remaining_lines # << >>
            /\ ~HasBrackets(Head(remaining_lines))
            /\ ChordTokens(Head(remaining_lines)) = 0)
        => /\ chords' = chords
           /\ IF Contains(Head(remaining_lines), << "Z", "Z", "Z" >>)
              THEN beats' = Append(beats, Head(remaining_lines))
              ELSE lyrics' = Append(lyrics, Head(remaining_lines)) ]_vars

\* the starts (counted from 0) of the maximal digit runs of a line, the run that
\* starts at offset k, and the runs whose value is a beat number
DigitRunStarts(t) ==
    { k \in 0..(Len(t) - 1) : IsDigit(t[k + 1]) /\ (k = 0 \/ ~IsDigit(t[k])) }
DigitRunAt(t, k) ==
    LET e == CHOOSE e \in (k + 1)..Len(t) :
                 /\ \A j \in (k + 1)..e : IsDigit(t[j])
                 /\ (e = Len(t) \/ ~IsDigit(t[e + 1]))
    IN  SubSeq(t, k + 1, e)
BeatRunStarts(t) ==
    { k \in DigitRunStarts(t) :
         1 <= Decimal(DigitRunAt(t, k), 0) /\ Decimal(DigitRunAt(t, k), 0) <= MaxBeat }

\* C21: the beat positions are exactly the maximal digit runs of the beat line whose
\* value is in 1..MaxBeat, each with the offset of its first character, in strictly
\* increasing offset order; the aligned data has one (beat number, chord token,
\* lyric token) entry per position, in the same order, repeated beat numbers kept.
C21_BeatPositionsAndAlignment ==
    /\ pc \in { "extract", "aligned" } =>
          /\ Len(beat_positions) = Cardinality(BeatRunStarts(beat_line))
          /\ \A k \in 1..Len(beat_positions) :
                /\ beat_positions[k][2] \in BeatRunStarts(beat_line)
                /\ beat_positions[k][1] =
                      Decimal(DigitRunAt(beat_line, beat_positions[k][2]), 0)
                /\ k > 1 => beat_positions[k - 1][2] < beat_positions[k][2]
    /\ pc = "aligned" =>
          /\ Len(chord_word_data) = Len(beat_positions)
          /\ \A k \in 1..Len(chord_word_data) :
                /\ chord_word_data[k][1] = beat_positions[k][1]
                /\ chord_word_data[k][2] =
                      extract_item_at_position(chord_line, beat_positions[k][2])
                /\ chord_word_data[k][3] =
                      extract_item_at_position(lyric_line, beat_positions[k][2])

\* C21 witness: a beat line with the same beat number at two offsets was aligned;
\* each occurrence has its own entry, the first with a chord and the second without.
C21_Witness ==
    /\ pc = "aligned"
    /\ Len(chord_word_data) = 2
    /\ chord_word_data[1][1] = chord_word_data[2][1]
    /\ beat_positions[1][2] < beat_positions[2][2]
    /\ chord_word_data[1][2] # << >>
    /\ chord_word_data[2][2] = << >>

\* the maximal space-free substring of a line that contains offset off (from 0);
\* empty when off is past the end or the character at off is a space
TokenAt(t, off) ==
    IF off >= Len(t) \/ t[off + 1] = " " THEN << >>
    ELSE LET a == CHOOSE a \in 1..(off + 1) :
                      /\ \A j \in a..(off + 1) : t[j] # " "
                      /\ (a = 1 \/ t[a - 1] = " ")
             b == CHOOSE b \in (off + 1)..Len(t) :
                      /\ \A j \in (off + 1)..b : t[j] # " "
                      /\ (b = Len(t) \/ t[b + 1] = " ")
         IN  SubSeq(t, a, b)

\* C22: the chord and the lyric token extracted for a position are the maximal
\* space-free substring of the line containing the offset, and the empty string when
\* the offset is at or past the end of the line or on a space.
C22_ItemIsTokenAtOffset ==
    pc = "aligned" =>
       \A k \in 1..Len(chord_word_data) :
          /\ chord_word_data[k][2] = TokenAt(chord_line, beat_positions[k][2])
          /\ chord_word_data[k][3] = TokenAt(lyric_line, beat_positions[k][2])


\* C23: bounce_start_time is a timestamp, and not a later one than the latest clock
\* reading, whenever the clock runs (started, not paused, not dragging), and no
\* resume or tick ever computes with an undefined bounce_start_time.
C23_BounceStartDefinedAndNotInFuture ==
    /\ ~crashed
    /\ (pc = "play" /\ ~waiting_for_start /\ ~song_paused /\ ~dragging) =>
          /\ bounce_start_time # None
          /\ bounce_start_time <= wall


\* C27: every step that sets the pause flag records the time of the step in
\* pause_time (the frame's clock sample, or the clock reading taken by the click
\* handler), also the pause implied by grabbing the progress indicator.
C27_EveryPauseRecordsPauseTime ==
    [][ (pc = "play" /\ ~song_paused /\ song_paused')
        => pause_time' \in { current_time, wall' } ]_vars


\* C25: whenever the clock is started the displayed line number is the line index
\* plus one.
C25_LineNumberIsIndexPlusOne ==
    (pc = "play" /\ ~waiting_for_start) => song_line_number = current_index + 1


\* C26: in every state of the main loop 0 <= bounce_count < BOUNCES_PER_LINE, for
\* every numerator parse_time_signature can return.
C26_BounceCountBelowBouncesPerLine ==
    pc = "play" => (0 <= bounce_count /\ bounce_count < BOUNCES_PER_LINE)


\* C24: every frame that evaluates the highlight lookup finds the beat sequence
\* initialised from the first beat line, hence non-empty, and so never takes
\* bounce_count modulo zero, whatever the frame in which the song was started.
C24_BeatSequenceSetBeforeLookup ==
    [][ (Tick /\ LookupEvaluated) =>
           (BEAT_NUMBERS = (IF variant = "ip2" THEN IP2_BEAT_NUMBERS ELSE BEAT_NUMS)
            /\ ~crashed') ]_vars


\* ---------------------------------------------------------------------------
\* C29: at most one recording worker thread is inside its capture loop at any
\* time, and once stop_recording has returned for a thread, that thread neither
\* appends a frame to audio_frames nor reads its (closed) stream, for every
\* interleaving of toggle_recording with the workers, a join that times out
\* followed by a new start included.
C29_OneWorkerAndNoneAfterStop ==
    /\ [](Cardinality(Alive) <= 1)
    /\ [][\A w \in Threads :
            (w \in stop_returned /\ worker_pc[w] \in { "read", "append" })
               => worker_pc'[w] = worker_pc[w]]_vars

\* ---------------------------------------------------------------------------
\* C30: recording is active only in normal mode: in every reachable state
\* is_recording implies playback_mode = "normal".
C30_RecordingOnlyInNormalMode ==
    pc \in { "hiflite", "join" } /\ is_recording => playback_mode = "normal"

====
